---- MODULE Spec2Model ----
(***************************************************************************)
(* A model of Resumer.ai (src/app.py): one click of the "Analyze Resume"   *)
(* button in main, the PDF text extraction, the schema-validated model     *)
(* call and the rendering of the result and of the downloadable report.    *)
(***************************************************************************)
EXTENDS Integers, Sequences, FiniteSets, TLC

VARIABLES
    pc,               \* position of main inside the "if analyze_button" block
    api_key,          \* sidebar text input
    uploaded_file,    \* file uploader value
    job_description,  \* text area value
    extract_outcome,  \* <<>> or <<outcome of extract_text_from_pdf>>
    resume_text,      \* the local of main, a sequence of characters
    response,         \* <<>> or <<what the model chain produced>>
    invocations,      \* number of analysis_chain.invoke calls made
    result,           \* <<>> or <<the ResumeAnalysis analyze_resume returned>>
    msgs,             \* the UI elements emitted by the run, in order
    report            \* the data of the download button, "" when there is none

vars == <<pc, api_key, uploaded_file, job_description, extract_outcome,
          resume_text, response, invocations, result, msgs, report>>

----------------------------------------------------------------------------
(* Bounds of the model and constants of the program *)

MaxPages == 2
MaxPageLen == 2
MaxShortKw == 2
MaxOver == 1

MinPct == 0
MaxPct == 100
KwCap == 20

----------------------------------------------------------------------------
(* Characters and strings of the PDF text *)

Chars == {"a", " ", "\n"}
Whitespace == {" ", "\n"}

SeqsUpTo(S, n) == UNION {[1..k -> S] : k \in 0..n}

RECURSIVE LStrip(_)
LStrip(s) ==
    IF s # <<>> /\ Head(s) \in Whitespace THEN LStrip(Tail(s)) ELSE s

RECURSIVE RStrip(_)
RStrip(s) ==
    IF s # <<>> /\ s[Len(s)] \in Whitespace
    THEN RStrip(SubSeq(s, 1, Len(s) - 1))
    ELSE s

\* str.strip()
Strip(s) == LStrip(RStrip(s))

\* the loop of extract_text_from_pdf: text_content += page.extract_text() + "\n"
RECURSIVE ConcatPages(_)
ConcatPages(pages) ==
    IF pages = <<>> THEN <<>>
    ELSE Head(pages) \o <<"\n">> \o ConcatPages(Tail(pages))

ExtractNoStrip(file) ==
    IF file.readable
    THEN [kind |-> "return", value |-> ConcatPages(file.pages), errors |-> <<>>]
    ELSE [kind |-> "return", value |-> <<>>, errors |-> <<"error_reading_pdf">>]

\* extract_text_from_pdf: the outcome (return or raise), the value and the
\* st.error calls it makes. PdfReader or extract_text raising is file.readable
\* being FALSE.
extract_text_from_pdf(file) ==
    IF file.readable
    THEN [kind |-> "return", value |-> Strip(ConcatPages(file.pages)),
          errors |-> <<>>]
    ELSE [kind |-> "return", value |-> <<>>, errors |-> <<"error_reading_pdf">>]

----------------------------------------------------------------------------
(* Inputs *)

ApiKeys == {"", "key"}
JobDescriptions == {"", "jd"}

NoFile == [present |-> FALSE, readable |-> FALSE, pages |-> <<>>]
Unreadable == [present |-> TRUE, readable |-> FALSE, pages |-> <<>>]
Readable(pages) == [present |-> TRUE, readable |-> TRUE, pages |-> pages]

PageTexts == SeqsUpTo(Chars, MaxPageLen)
BoundedUploads == {Readable(p) : p \in SeqsUpTo(PageTexts, MaxPages)}

SampleUploads ==
    { Readable(<<>>),
      Readable(<< <<>> >>),
      Readable(<< <<" ", "\n">>, <<>> >>),
      Readable(<< <<"a">> >>),
      Readable(<< <<" ", "a">>, <<"a", "\n">> >>) }

----------------------------------------------------------------------------
(* The ResumeAnalysis schema and the model's answers *)

FieldNames == {"match_percentage", "missing_keywords", "strengths",
               "improvements", "overall_assessment"}

Keywords == {"Docker", "Kubernetes"}
Pcts == {0 - 1, 0, 7, 72, 100, 101}

KwLists ==
    SeqsUpTo(Keywords, MaxShortKw)
    \cup {[i \in 1..n |-> "Docker"] : n \in KwCap..(KwCap + MaxOver)}

PresentSets == {FieldNames} \cup {FieldNames \ {f} : f \in FieldNames}

\* A field that is absent from the answer carries a fixed filler value.
Normalise(r) ==
    [failed |-> r.failed,
     present |-> IF r.failed THEN {} ELSE r.present,
     match_percentage |->
        IF ~r.failed /\ "match_percentage" \in r.present
        THEN r.match_percentage ELSE 0,
     missing_keywords |->
        IF ~r.failed /\ "missing_keywords" \in r.present
        THEN r.missing_keywords ELSE <<>>,
     strengths |->
        IF ~r.failed /\ "strengths" \in r.present THEN r.strengths ELSE "",
     improvements |->
        IF ~r.failed /\ "improvements" \in r.present THEN r.improvements ELSE "",
     overall_assessment |->
        IF ~r.failed /\ "overall_assessment" \in r.present
        THEN r.overall_assessment ELSE ""]

\* What the chain can produce: a failure of the call (network, key, quota,
\* unparseable output: failed = TRUE) or a raw answer with some fields.
Responses ==
    {Normalise(r) : r \in
        [failed : BOOLEAN, present : PresentSets, match_percentage : Pcts,
         missing_keywords : KwLists, strengths : {"", "S"},
         improvements : {"", "I"}, overall_assessment : {"", "O"}]}

ValidNoUpperBound(r) ==
    /\ r.present = FieldNames
    /\ r.match_percentage >= MinPct
    /\ Len(r.missing_keywords) <= KwCap

ValidNoRequired(r) ==
    /\ r.match_percentage >= MinPct
    /\ r.match_percentage <= MaxPct
    /\ Len(r.missing_keywords) <= KwCap

ValidNoCap(r) ==
    /\ r.present = FieldNames
    /\ r.match_percentage >= MinPct
    /\ r.match_percentage <= MaxPct

ValidNonEmpty(r) ==
    /\ r.present = FieldNames
    /\ r.match_percentage >= MinPct
    /\ r.match_percentage <= MaxPct
    /\ Len(r.missing_keywords) <= KwCap
    /\ r.strengths # ""
    /\ r.improvements # ""
    /\ r.overall_assessment # ""

\* The constraints of class ResumeAnalysis: five required fields, ge=0, le=100,
\* max_length=20; the three str fields carry no constraint.
ResumeAnalysis(r) ==
    /\ r.present = FieldNames
    /\ r.match_percentage >= MinPct
    /\ r.match_percentage <= MaxPct
    /\ Len(r.missing_keywords) <= KwCap

Fields(r) ==
    [match_percentage |-> r.match_percentage,
     missing_keywords |-> r.missing_keywords,
     strengths |-> r.strengths,
     improvements |-> r.improvements,
     overall_assessment |-> r.overall_assessment]

\* prompt | llm.with_structured_output(ResumeAnalysis), invoked once: it raises
\* when the call fails or the answer does not validate, else returns the object.
ChainInvoke(r) ==
    IF r.failed \/ ~ResumeAnalysis(r)
    THEN [kind |-> "raise", value |-> <<>>]
    ELSE [kind |-> "return", value |-> <<Fields(r)>>]

AnalyzeResumeRetry(r) ==
    LET out == ChainInvoke(r) IN
    IF out.kind = "return"
    THEN [kind |-> "return", value |-> out.value, errors |-> <<>>, calls |-> 1]
    ELSE [kind |-> "raise", value |-> <<>>,
          errors |-> <<"error_during_analysis">>, calls |-> 2]

\* analyze_resume, lines 174-185: one invoke inside try; on an exception
\* st.error and re-raise.
analyze_resume(r) ==
    LET out == ChainInvoke(r) IN
    IF out.kind = "return"
    THEN [kind |-> "return", value |-> out.value, errors |-> <<>>, calls |-> 1]
    ELSE [kind |-> "raise", value |-> <<>>,
          errors |-> <<"error_during_analysis">>, calls |-> 1]

----------------------------------------------------------------------------
(* The report *)

Digit(d) ==
    CASE d = 0 -> "0" [] d = 1 -> "1" [] d = 2 -> "2" [] d = 3 -> "3"
      [] d = 4 -> "4" [] d = 5 -> "5" [] d = 6 -> "6" [] d = 7 -> "7"
      [] d = 8 -> "8" [] d = 9 -> "9"

\* the decimal formatting of an int inside an f-string
RECURSIVE DecStr(_)
DecStr(n) ==
    IF n < 0 THEN "-" \o DecStr(0 - n)
    ELSE IF n < 10 THEN Digit(n)
    ELSE DecStr(n \div 10) \o Digit(n % 10)

\* chr(10).join('- ' + k for k in missing_keywords)
RECURSIVE JoinKeywords(_)
JoinKeywords(ks) ==
    IF ks = <<>> THEN ""
    ELSE IF Len(ks) = 1 THEN "- " \o ks[1]
    ELSE "- " \o ks[1] \o "\n" \o JoinKeywords(Tail(ks))

ReportSwapped(r) ==
    "\nRESUME ANALYSIS REPORT\n======================\n\nMatch Score: "
    \o DecStr(r.match_percentage) \o "%\n\nMISSING KEYWORDS:\n"
    \o JoinKeywords(r.missing_keywords)
    \o "\n\nSTRENGTHS:\n" \o r.improvements
    \o "\n\nIMPROVEMENTS:\n" \o r.strengths
    \o "\n\nOVERALL ASSESSMENT:\n" \o r.overall_assessment
    \o "\n\nGenerated by Resume Analyzer AI\nPowered by Google Gemini 2.0 & LangChain\n"

\* the f-string of main, lines 452-472
Report(r) ==
    "\nRESUME ANALYSIS REPORT\n======================\n\nMatch Score: "
    \o DecStr(r.match_percentage) \o "%\n\nMISSING KEYWORDS:\n"
    \o JoinKeywords(r.missing_keywords)
    \o "\n\nSTRENGTHS:\n" \o r.strengths
    \o "\n\nIMPROVEMENTS:\n" \o r.improvements
    \o "\n\nOVERALL ASSESSMENT:\n" \o r.overall_assessment
    \o "\n\nGenerated by Resume Analyzer AI\nPowered by Google Gemini 2.0 & LangChain\n"

----------------------------------------------------------------------------
(* main: the block under "if analyze_button" *)

ValidateInputsFileFirst(key, file, jd) ==
    IF ~file.present THEN "error_upload"
    ELSE IF key = "" THEN "error_api_key"
    ELSE IF jd = "" THEN "error_job_description"
    ELSE "ok"

\* lines 343-353: the three checks, each ending the run with one st.error
ValidateInputs(key, file, jd) ==
    IF key = "" THEN "error_api_key"
    ELSE IF ~file.present THEN "error_upload"
    ELSE IF jd = "" THEN "error_job_description"
    ELSE "ok"

InitRest ==
    /\ pc = "idle"
    /\ api_key \in ApiKeys
    /\ job_description \in JobDescriptions
    /\ extract_outcome = <<>>
    /\ resume_text = <<>>
    /\ response = <<>>
    /\ invocations = 0
    /\ result = <<>>
    /\ msgs = <<>>
    /\ report = ""

Init ==
    /\ uploaded_file \in {NoFile, Unreadable} \cup SampleUploads
    /\ InitRest

InitPdf ==
    /\ uploaded_file \in {NoFile, Unreadable} \cup BoundedUploads
    /\ InitRest

\* the button is clicked: lines 341-353
ClickAnalyze ==
    /\ pc = "idle"
    /\ LET v == ValidateInputs(api_key, uploaded_file, job_description) IN
        IF v = "ok"
        THEN /\ pc' = "extract"
             /\ msgs' = msgs
        ELSE /\ pc' = "done"
             /\ msgs' = Append(msgs, v)
    /\ UNCHANGED <<api_key, uploaded_file, job_description, extract_outcome,
                   resume_text, response, invocations, result, report>>

\* lines 359-369: the call of extract_text_from_pdf and the check of its value
ExtractText ==
    /\ pc = "extract"
    /\ LET out == extract_text_from_pdf(uploaded_file) IN
        /\ extract_outcome' = <<[kind |-> out.kind, value |-> out.value]>>
        /\ IF out.kind = "raise"
           THEN /\ resume_text' = resume_text
                /\ msgs' = msgs \o out.errors \o <<"error_occurred", "info_tip">>
                /\ pc' = "done"
           ELSE /\ resume_text' = out.value
                /\ IF out.value = <<>>
                   THEN /\ msgs' = msgs \o out.errors \o <<"error_no_text">>
                        /\ pc' = "done"
                   ELSE /\ msgs' = msgs \o out.errors \o <<"extracted">>
                        /\ pc' = "analyze"
    /\ UNCHANGED <<api_key, uploaded_file, job_description, response,
                   invocations, result, report>>

\* lines 372-374 and, when analyze_resume raises, the handler of lines 482-484
Analyze ==
    /\ pc = "analyze"
    /\ \E r \in Responses :
        LET out == analyze_resume(r) IN
        /\ response' = <<r>>
        /\ invocations' = invocations + out.calls
        /\ IF out.kind = "return"
           THEN /\ result' = out.value
                /\ msgs' = msgs \o out.errors
                /\ pc' = "display"
           ELSE /\ result' = result
                /\ msgs' = msgs \o out.errors \o <<"error_occurred", "info_tip">>
                /\ pc' = "done"
    /\ UNCHANGED <<api_key, uploaded_file, job_description, extract_outcome,
                   resume_text, report>>

\* lines 377-480: the success banner, the five tabs, the report and its
\* download button
DisplayResults ==
    /\ pc = "display"
    /\ msgs' = msgs \o <<"success", "tabs", "download">>
    /\ report' = Report(result[1])
    /\ pc' = "done"
    /\ UNCHANGED <<api_key, uploaded_file, job_description, extract_outcome,
                   resume_text, response, invocations, result>>

Next ==
    \/ ClickAnalyze
    \/ ExtractText
    \/ Analyze
    \/ DisplayResults

Spec == Init /\ [][Next]_vars

NextPdf ==
    \/ ClickAnalyze
    \/ ExtractText

SpecPdf == InitPdf /\ [][NextPdf]_vars

----------------------------------------------------------------------------
(* Vocabulary of the properties *)

Shows(m) == \E i \in 1..Len(msgs) : msgs[i] = m

ErrorKinds == {"error_api_key", "error_upload", "error_job_description",
               "error_reading_pdf", "error_no_text", "error_during_analysis",
               "error_occurred"}

ErrorCount == Cardinality({i \in 1..Len(msgs) : msgs[i] \in ErrorKinds})

ResultShown == Shows("success") \/ Shows("tabs") \/ Shows("download") \/ report # ""

ResultComplete ==
    Shows("success") /\ Shows("tabs") /\ Shows("download") /\ report # ""

Answered == response # <<>> /\ ~response[1].failed

SchemaValid(r) ==
    /\ r.present = FieldNames
    /\ r.match_percentage \in 0..100
    /\ Len(r.missing_keywords) <= 20

\* s with its leading and trailing whitespace removed, stated without Strip
IsTrimOf(v, s) ==
    /\ v = <<>> \/ (v[1] \notin Whitespace /\ v[Len(v)] \notin Whitespace)
    /\ \E i \in 1..(Len(s) + 1) :
        /\ i + Len(v) - 1 <= Len(s)
        /\ v = SubSeq(s, i, i + Len(v) - 1)
        /\ \A k \in 1..Len(s) :
            (k < i \/ k > i + Len(v) - 1) => s[k] \in Whitespace

\* the page texts with one newline between neighbours
RECURSIVE JoinNewline(_)
JoinNewline(pages) ==
    IF pages = <<>> THEN <<>>
    ELSE IF Len(pages) = 1 THEN pages[1]
    ELSE pages[1] \o <<"\n">> \o JoinNewline(Tail(pages))

\* one "- keyword" line per keyword
RECURSIVE SpecKeywordLines(_)
SpecKeywordLines(ks) ==
    IF ks = <<>> THEN ""
    ELSE "- " \o Head(ks) \o "\n" \o SpecKeywordLines(Tail(ks))

\* the literal template of the report, with the keyword section given
SpecTemplateWith(r, kwSection) ==
    "RESUME ANALYSIS REPORT\n"
    \o "======================\n"
    \o "\n"
    \o "Match Score: " \o ToString(r.match_percentage) \o "%\n"
    \o "\n"
    \o "MISSING KEYWORDS:\n"
    \o kwSection
    \o "\n"
    \o "STRENGTHS:\n"
    \o r.strengths \o "\n"
    \o "\n"
    \o "IMPROVEMENTS:\n"
    \o r.improvements \o "\n"
    \o "\n"
    \o "OVERALL ASSESSMENT:\n"
    \o r.overall_assessment

SpecTemplate(r) == SpecTemplateWith(r, SpecKeywordLines(r.missing_keywords))

Footer ==
    "\n\nGenerated by Resume Analyzer AI\nPowered by Google Gemini 2.0 & LangChain\n"

----------------------------------------------------------------------------
(* The properties *)

\* C1: every result analyze_resume returns, and every result behind a report,
\* has 0 <= match_percentage <= 100 and at most 20 missing keywords,
\* whatever the model answered.
C1_ResultWithinSchema ==
    /\ result # <<>> =>
        /\ result[1].match_percentage >= 0
        /\ result[1].match_percentage <= 100
        /\ Len(result[1].missing_keywords) <= 20
    /\ ResultShown => result # <<>>

C1_Witness ==
    /\ pc = "done"
    /\ result # <<>>
    /\ report # ""
    /\ result[1].match_percentage = 100
    /\ Len(result[1].missing_keywords) = 20

\* C2: an answer that lacks a required field, or whose match_percentage is
\* outside [0,100], makes analyze_resume fail with an error: no result is
\* returned and main reaches neither the tabs nor the download step.
C2_InvalidResponseRejected ==
    (/\ Answered
     /\ \/ response[1].present # FieldNames
        \/ response[1].match_percentage < 0
        \/ response[1].match_percentage > 100)
    => /\ result = <<>>
       /\ pc = "done"
       /\ Shows("error_during_analysis")
       /\ ~ResultShown

C2_Witness ==
    /\ Answered
    /\ response[1].present = FieldNames
    /\ response[1].match_percentage = 101
    /\ Len(response[1].missing_keywords) <= 20
    /\ pc = "done"

\* C3: for a stream the PDF parser cannot read, extract_text_from_pdf ends in
\* an error outcome its caller can tell from the empty string of a readable
\* PDF without text; it never returns the empty string for such a stream.
C3_UnreadableIsAnError ==
    (extract_outcome # <<>> /\ ~uploaded_file.readable)
    => /\ extract_outcome[1].kind = "raise"
       /\ ~(extract_outcome[1].kind = "return" /\ extract_outcome[1].value = <<>>)

\* C4 as stated: the report is exactly the literal template, nothing before
\* the title and nothing after the overall assessment.
C4_ReportIsTemplate ==
    report # "" => report = SpecTemplate(result[1])

\* C4 as amended: the report is a newline, then the template (whose keyword
\* section is a single empty line when there are no keywords), then a blank
\* line and the two footer lines; a displayed result always has its report.
C4_ReportIsTemplateWithFooter ==
    /\ report # "" =>
        /\ result # <<>>
        /\ report =
            "\n"
            \o SpecTemplateWith(result[1],
                 IF result[1].missing_keywords = <<>> THEN "\n"
                 ELSE SpecKeywordLines(result[1].missing_keywords))
            \o Footer
    /\ (pc = "done" /\ result # <<>>) => report # ""

C4_Witness ==
    /\ report # ""
    /\ result[1].match_percentage = 72
    /\ result[1].missing_keywords = <<"Docker", "Kubernetes">>
    /\ result[1].strengths = "S"
    /\ result[1].improvements = "I"
    /\ result[1].overall_assessment = "O"

\* C5: for a readable PDF extract_text_from_pdf returns the page texts joined
\* by single newlines, with leading and trailing whitespace trimmed; when no
\* page yields text the value is the empty string and no error is raised.
C5_JoinedAndTrimmed ==
    (extract_outcome # <<>> /\ uploaded_file.readable)
    => /\ extract_outcome[1].kind = "return"
       /\ IsTrimOf(extract_outcome[1].value, JoinNewline(uploaded_file.pages))
       /\ (\A i \in 1..Len(uploaded_file.pages) : uploaded_file.pages[i] = <<>>)
            => extract_outcome[1].value = <<>>
       /\ ~Shows("error_reading_pdf")
       /\ ~Shows("error_occurred")

C5_Witness ==
    /\ extract_outcome # <<>>
    /\ uploaded_file.readable
    /\ uploaded_file.pages = << <<" ", "a">>, <<"a", "\n">> >>
    /\ extract_outcome[1].value = <<"a", "\n", "a">>

\* C6: a click ends in exactly one outcome: a complete result display with no
\* error message, or a single error message with no result display.
C6_SingleTerminalOutcome ==
    pc = "done" =>
        \/ ResultComplete /\ ErrorCount = 0
        \/ ~ResultShown /\ ErrorCount = 1

\* C7 as stated: every result handed to the rendering or the report has
\* non-empty strengths, improvements and overall_assessment.
C7_NarrativesNonEmpty ==
    result # <<>> =>
        /\ result[1].strengths # ""
        /\ result[1].improvements # ""
        /\ result[1].overall_assessment # ""

\* C7 as amended: the three narrative fields are only required to be present:
\* an answer lacking one of them is rejected, an otherwise valid answer in
\* which some of them are the empty string is returned unchanged and rendered.
C7_NarrativesOnlyRequired ==
    /\ (/\ Answered
        /\ {"strengths", "improvements", "overall_assessment"}
             \ response[1].present # {})
       => result = <<>> /\ ~ResultShown
    /\ (/\ Answered
        /\ SchemaValid(response[1])
        /\ \/ response[1].strengths = ""
           \/ response[1].improvements = ""
           \/ response[1].overall_assessment = "")
       => /\ result # <<>>
          /\ result[1].strengths = response[1].strengths
          /\ result[1].improvements = response[1].improvements
          /\ result[1].overall_assessment = response[1].overall_assessment
          /\ pc = "done" => ResultComplete

C7_Witness ==
    /\ pc = "done"
    /\ result # <<>>
    /\ result[1].strengths = ""
    /\ result[1].improvements = "I"
    /\ report # ""

\* C8 as stated: an otherwise valid answer with more than 20 missing keywords
\* is not rejected: a result with at most 20 keywords is returned.
C8_OverCapAccepted ==
    (/\ Answered
     /\ response[1].present = FieldNames
     /\ response[1].match_percentage \in 0..100
     /\ Len(response[1].missing_keywords) > 20)
    => /\ result # <<>>
       /\ Len(result[1].missing_keywords) <= 20

\* C8 as amended: the cap of 20 is enforced when the answer is validated: an
\* answer with more than 20 missing keywords makes analyze_resume fail, and an
\* accepted answer keeps its keyword list as it is, nothing being truncated.
C8_OverCapRejected ==
    /\ (Answered /\ Len(response[1].missing_keywords) > 20)
       => /\ result = <<>>
          /\ pc = "done"
          /\ Shows("error_during_analysis")
          /\ ~ResultShown
    /\ (Answered /\ result # <<>>)
       => result[1].missing_keywords = response[1].missing_keywords

C8_Witness ==
    /\ Answered
    /\ response[1].present = FieldNames
    /\ response[1].match_percentage = 72
    /\ Len(response[1].missing_keywords) = 21
    /\ pc = "done"

\* C9: one call of analyze_resume invokes the chain at most once: a failed
\* invocation is re-raised to main without a second one, a successful one is
\* returned without a further call.
C9_AtMostOneInvocation ==
    /\ invocations <= 1
    /\ response # <<>> => invocations = 1
    /\ (response # <<>> /\ (response[1].failed \/ ~SchemaValid(response[1])))
       => /\ result = <<>>
          /\ Shows("error_during_analysis")
          /\ Shows("error_occurred")
    /\ (Answered /\ SchemaValid(response[1])) => result # <<>>

C9_Witness ==
    /\ response # <<>>
    /\ response[1].failed
    /\ invocations = 1
    /\ pc = "done"

\* C10: the model is invoked only after the extraction has finished and only
\* with a non-empty API key, file, job description and resume text; a missing
\* one stops the run with its error before the model call, the key, the file
\* and the job description being checked in this order before the PDF is read.
C10_InvokedOnlyWithAllInputs ==
    /\ invocations > 0 =>
        /\ api_key # ""
        /\ uploaded_file.present
        /\ job_description # ""
        /\ extract_outcome # <<>>
        /\ resume_text # <<>>
    /\ (pc # "idle" /\ api_key = "") =>
        msgs = <<"error_api_key">> /\ extract_outcome = <<>> /\ pc = "done"
    /\ (pc # "idle" /\ api_key # "" /\ ~uploaded_file.present) =>
        msgs = <<"error_upload">> /\ extract_outcome = <<>> /\ pc = "done"
    /\ (pc # "idle" /\ api_key # "" /\ uploaded_file.present
        /\ job_description = "") =>
        msgs = <<"error_job_description">> /\ extract_outcome = <<>> /\ pc = "done"
    /\ (extract_outcome # <<>> /\ resume_text = <<>>) =>
        /\ pc = "done"
        /\ invocations = 0
        /\ msgs[Len(msgs)] = "error_no_text"

C10_Witness ==
    /\ pc = "done"
    /\ api_key = ""
    /\ ~uploaded_file.present
    /\ job_description = ""
    /\ msgs = <<"error_api_key">>

====
